---- MODULE Spec2Model ----
(***************************************************************************)
(* SubFlow storage coordination: the StorageManager promise queue with its *)
(* cache (js/storage/storage-manager.js) and the background service        *)
(* worker's debounced write buffer and RPC handlers (background script).   *)
(*                                                                         *)
(* A JavaScript object is a function whose DOMAIN is the set of its own    *)
(* keys; a stored array is a sequence of items.  Every asynchronous        *)
(* function is cut at its await points: one action runs from one await to  *)
(* the next, as the single-threaded event loop does.                       *)
(***************************************************************************)
EXTENDS Integers, Sequences, FiniteSets, TLC

VARIABLES
  store,        \* chrome.storage.local: the backing store, an object
  cache,        \* StorageManager.cache: Null or an object
  initialized,  \* StorageManager.initialized
  ops,          \* StorageManager.queue: every operation chained so far, in order
  extWrites,    \* number of writes other contexts made to the backing store
  store0,       \* history: what the backing store held when the context started
  system,       \* WordManager.system: the local knownWords and unknownWords sets
  syncQueue,    \* WordManager._syncQueue: every job chained so far, in order
  sentMoves,    \* the storageMove messages sent without awaiting an answer
  mimic,        \* PerfectMimicSubtitleSystem: the native lines on screen, the
                \* mimic lines, domState.lineCount, isActive, the TOGGLE handlers
                \* suspended at their await, and (history) whether the last
                \* event ended in scanAndMirror
  changeEvents, \* history: the storage change events delivered to the listener that
                \* onChanged registered, each with the callback calls it made
  pendingWrites,    \* globalThis._pendingWrites, with the order of its keys
  pendingFlushTimer,\* whether the debounce timer of scheduleFlush is pending
  flushInProgress,  \* globalThis._flushInProgress
  flush,            \* the activation of flushPendingWrites past its guard
  flushMetrics,     \* globalThis._flushMetrics
  flushCycles,      \* history: number of flush cycles that have taken a snapshot
  accepted,         \* history: per key, the value of the latest 'set' request answered
  reqs              \* the storageOp requests received, each with its handler's state

qvars == <<store, cache, initialized, ops>>
fvars == <<pendingWrites, pendingFlushTimer, flushInProgress, flush, flushMetrics,
           flushCycles, accepted, reqs>>
wvars == <<system, syncQueue, sentMoves, mimic>>
vars == <<store, cache, initialized, ops, extWrites, store0, changeEvents, wvars, pendingWrites,
          pendingFlushTimer, flushInProgress, flush, flushMetrics, flushCycles,
          accepted, reqs>>

-----------------------------------------------------------------------------
(* Bounds of the model *)

MaxOps == 3        \* operations chained on the queue in one run
MaxExt == 1        \* writes by other contexts in one run
MaxReqs == 2         \* storageOp requests received in one run
MaxEvents == 2       \* storage change events delivered
MaxJobs == 2         \* jobs submitted to one WordManager
MaxLines == 3        \* native caption lines on screen
MaxToggles == 2      \* TOGGLE handlers waiting for their storage request

-----------------------------------------------------------------------------
(* Data: keys, items, arrays, objects *)

KNOWN == "knownWords"
UNKNOWN == "unknownWords"
ACTIVE == "isActive"

SetKeys == {KNOWN, UNKNOWN}
Keys == SetKeys \cup {ACTIVE}
Items == {"x", "y"}

Range(s) == {s[n] : n \in DOMAIN s}

\* {} in JavaScript
EmptyObj == [k \in {} |-> <<>>]

\* this.cache = null
Null == [null |-> <<>>]

\* { ...a, ...b }
Merge(a, b) ==
  [k \in (DOMAIN a) \cup (DOMAIN b) |-> IF k \in DOMAIN b THEN b[k] ELSE a[k]]

\* the properties of o named in ks (a missing one reads as undefined)
Pick(o, ks) == [k \in ks \cap DOMAIN o |-> o[k]]

\* { [k]: v }
Single(k, v) == [j \in {k} |-> v]

\* { [k1]: v1, [k2]: v2 }: the later property wins when the keys are equal
Pair(k1, v1, k2, v2) == Merge(Single(k1, v1), Single(k2, v2))

\* Array.from(new Set(arr)): first occurrences, in order
RECURSIVE Dedup(_)
Dedup(s) ==
  IF s = <<>> THEN <<>>
  ELSE LET r == Dedup(SubSeq(s, 1, Len(s) - 1))
           e == s[Len(s)]
       IN IF e \in Range(r) THEN r ELSE Append(r, e)

\* set = new Set(arr); set.add(x); Array.from(set)
\* (mutant) the item is pushed onto the array without set semantics
SetAddAppend(s, x) == Append(s, x)

SetAdd(s, x) ==
  LET d == Dedup(s) IN IF x \in Range(d) THEN d ELSE Append(d, x)

\* set = new Set(arr); set.delete(x); Array.from(set)
SetDelete(s, x) == SelectSeq(Dedup(s), LAMBDA e : e # x)

-----------------------------------------------------------------------------
(* The backing store adapter (chrome.storage.local) *)

\* chrome.storage.local.get(): everything
\* (mutant) the base of the merge is the cache, not a re-read of the store
AdapterGetAllCached(st) == IF cache = Null THEN EmptyObj ELSE cache

\* (mutant) the re-read returns nothing
AdapterGetAllNone(st) == EmptyObj

AdapterGetAll(st) == st

\* chrome.storage.local.get(key) / get([keys]): the stored ones among them
AdapterGetKeys(st, ks) == Pick(st, ks)

\* chrome.storage.local.get(schema): stored values, the schema's default otherwise
AdapterGetDefaults(st, schema) ==
  [k \in DOMAIN schema |-> IF k \in DOMAIN st THEN st[k] ELSE schema[k]]

\* chrome.storage.local.set(obj): the keys of obj are overwritten, the rest kept
AdapterSet(st, obj) == Merge(st, obj)

\* chrome.storage.local.clear()
AdapterClear(st) == EmptyObj

\* chrome.storage.local.remove(k), as other contexts may call it
AdapterRemove(st, k) == [j \in DOMAIN st \ {k} |-> st[j]]

-----------------------------------------------------------------------------
(* StorageManager: the promise queue *)

\* One entry of the chain this.queue: the promise an operation returned.
\*   st   "queued" (its then-callback has not fired), "running" (its body is
\*        suspended at the await named by pc), "fulfilled", "rejected"
\*   ran  whether the body was entered
\*   err  the rejection's error; res the fulfilment's value
\*   items, merged, cur: the body's locals while it is suspended
NewOp(type, arg, by) ==
  [type |-> type, arg |-> arg, by |-> by, st |-> "queued", pc |-> "-",
   ran |-> FALSE, err |-> "none", res |-> EmptyObj,
   items |-> EmptyObj, merged |-> EmptyObj, cur |-> <<>>]

Settled(o) == o.st \in {"fulfilled", "rejected"}

Fulfil(o, res) ==
  [o EXCEPT !.st = "fulfilled", !.pc = "-", !.ran = TRUE, !.res = res,
            !.items = EmptyObj, !.merged = EmptyObj, !.cur = <<>>]

\* pc keeps the await the body was rejected at ("-": before its first await)
Reject(o, err) ==
  [o EXCEPT !.st = "rejected", !.ran = TRUE, !.err = err,
            !.items = EmptyObj, !.merged = EmptyObj, !.cur = <<>>]

\* the then-callback of a rejected promise is not called: the rejection is passed on
Skip(o, err) == [o EXCEPT !.st = "rejected", !.err = err]

Suspend(o, pc) == [o EXCEPT !.st = "running", !.pc = pc, !.ran = TRUE]

\* What this.queue was when operation i was chained: the promise of operation
\* i - 1, which moveToSet alone wraps in catch(() => Promise.resolve()).
\* (mutant) the chained promise counts as settled once its body has started
TailSettledEarly(q, i) == IF i = 0 THEN TRUE ELSE q[i].st # "queued"

TailSettled(q, i) == IF i = 0 THEN TRUE ELSE Settled(q[i])

\* (mutant) moveToSet leaves its rejected promise as the queue too
TailRejectedAnyType(q, i) == IF i = 0 THEN FALSE ELSE q[i].st = "rejected"

TailRejected(q, i) ==
  IF i = 0 THEN FALSE ELSE q[i].st = "rejected" /\ q[i].type # "moveToSet"

\* (mutant) the body is started when the operation is called, not chained
QueueReadyNoWait(q, i) == TRUE

\* this.queue.then(body): body may be called once this.queue has settled
QueueReady(q, i) == TailSettled(q, i - 1)

\* the update functions of addToSet and removeFromSet; cur is <<>> for undefined
\* (the default parameter currentArray = []) and <<array>> otherwise
ApplyFn(fn, item, cur) ==
  LET arr == IF cur = <<>> THEN <<>> ELSE cur[1]
  IN IF fn = "add" THEN SetAdd(arr, item) ELSE SetDelete(arr, item)

\* (mutant) _setInternal without its check of this.initialized
SetInternalEnterUnchecked(o, items, skipRemoteRead) ==
  IF skipRemoteRead
  THEN [Suspend(o, "write") EXCEPT
          !.items = items,
          !.merged = Merge(IF cache = Null THEN EmptyObj ELSE cache, items)]
  ELSE [Suspend(o, "baseRead") EXCEPT !.items = items]

\* _setInternal up to its first await, entered with items and options
SetInternalEnter(o, items, skipRemoteRead) ==
  IF ~initialized THEN Reject(o, "uninitialized")
  ELSE IF skipRemoteRead
       THEN [Suspend(o, "write") EXCEPT
               !.items = items,
               !.merged = Merge(IF cache = Null THEN EmptyObj ELSE cache, items)]
       ELSE [Suspend(o, "baseRead") EXCEPT !.items = items]

\* the body of operation o up to its first await
BodyEnter(o) ==
  CASE o.type = "initialize" -> Suspend(o, "get")
    [] o.type = "get" ->
         IF ~initialized THEN Reject(o, "uninitialized")
         ELSE Fulfil(o, Pick(cache, o.arg.keys))
    [] o.type = "set" -> SetInternalEnter(o, o.arg.items, FALSE)
    [] o.type = "update" ->
         IF ~initialized THEN Reject(o, "uninitialized") ELSE Suspend(o, "get")
    [] o.type = "moveToSet" -> Suspend(o, "get")
    [] o.type = "clear" -> Suspend(o, "clear")
    [] o.type = "export" -> Fulfil(o, IF cache = Null THEN EmptyObj ELSE cache)

\* The then-callback of operation i fires: the body starts, or the rejection of
\* the promise it was chained on is passed on.
Start(i) ==
  /\ i \in DOMAIN ops
  /\ ops[i].st = "queued"
  /\ QueueReady(ops, i)
  /\ ops' = [ops EXCEPT ![i] = IF TailRejected(ops, i - 1)
                               THEN Skip(@, ops[i - 1].err)
                               ELSE BodyEnter(@)]
  /\ UNCHANGED <<store, cache, initialized, extWrites, store0, changeEvents, wvars, fvars>>

\* resultPromise = this.queue.then(...); this.queue = resultPromise
Chain(q, type, arg, by) == Append(q, NewOp(type, arg, by))

\* A direct caller of the API chains an operation
Enqueue(type, arg, by) ==
  /\ Len(ops) < MaxOps
  /\ ops' = Chain(ops, type, arg, by)

\* A continuation whose promise has settled runs before the event loop takes the
\* next task (a message, a timer, the completion of a chrome.storage call).
MicrotaskPending ==
  \/ \E i \in DOMAIN ops : ops[i].st = "queued" /\ QueueReady(ops, i)
  \/ IF flush.pc = "write" THEN Settled(ops[flush.wait]) ELSE FALSE
  \/ \E r \in DOMAIN reqs :
       IF reqs[r].pc \in {"init", "call"} THEN Settled(ops[reqs[r].wait]) ELSE FALSE

\* moveToSet, from the read's result to the object handed to _setInternal.
\* remote[key] is an array when stored (an array is truthy, even []); when the key
\* is not stored the code falls back to this.cache[key] || [].
MoveSource(remote, key) ==
  IF key \in DOMAIN remote THEN remote[key]
  ELSE IF key \in DOMAIN cache THEN cache[key] ELSE <<>>

\* (mutant) the item is appended to toKey's array without set semantics
MoveItemsAppend(remote, fromKey, toKey, item) ==
  Pair(fromKey, SetDelete(MoveSource(remote, fromKey), item),
       toKey, Append(MoveSource(remote, toKey), item))

\* (mutant) the item is added to toKey and left in fromKey
MoveItemsNoDelete(remote, fromKey, toKey, item) ==
  Pair(fromKey, Dedup(MoveSource(remote, fromKey)),
       toKey, SetAdd(MoveSource(remote, toKey), item))

MoveItems(remote, fromKey, toKey, item) ==
  Pair(fromKey, SetDelete(MoveSource(remote, fromKey), item),
       toKey, SetAdd(MoveSource(remote, toKey), item))

\* this.cache[key] is read (and throws on null) only when remote[key] is missing
MoveThrows(remote, fromKey, toKey) ==
  cache = Null /\ ~({fromKey, toKey} \subseteq DOMAIN remote)

\* update: currentValue, as <<>> (undefined) or <<value>>
UpdateCurrent(remoteObj, key) ==
  IF key \in DOMAIN remoteObj THEN <<remoteObj[key]>>
  ELSE IF key \in DOMAIN cache THEN <<cache[key]>> ELSE <<>>

\* (mutant) this.cache is never assigned after a write
CacheAfterWriteStale(o, ok) == cache

\* (mutant) this.cache is assigned before the write is awaited
CacheAfterWriteEarly(o, ok) == o.merged

\* this.cache once the await of chrome.storage.local.set(merged) has settled
CacheAfterWrite(o, ok) == IF ok THEN o.merged ELSE cache

\* The backing-store call operation i is suspended on succeeds, and the body
\* runs on to its next await or its end.
AdapterOk(i) ==
  /\ i \in DOMAIN ops
  /\ ops[i].st = "running"
  /\ ops[i].pc \in {"get", "baseRead", "write", "clear"}
  /\ ~MicrotaskPending
  /\ LET o == ops[i] IN
     CASE o.pc = "write" ->
            /\ store' = AdapterSet(store, o.merged)
            /\ cache' = CacheAfterWrite(o, TRUE)
            /\ ops' = [ops EXCEPT ![i] =
                 Fulfil(o, IF o.type = "update" THEN o.items ELSE EmptyObj)]
            /\ UNCHANGED initialized
       [] o.pc = "baseRead" ->
            /\ ops' = [ops EXCEPT ![i] =
                 [Suspend(o, "write") EXCEPT
                    !.merged = Merge(AdapterGetAll(store), o.items)]]
            /\ UNCHANGED <<store, cache, initialized>>
       [] o.pc = "clear" ->
            /\ store' = AdapterClear(store)
            /\ cache' = EmptyObj
            /\ ops' = [ops EXCEPT ![i] = Fulfil(o, EmptyObj)]
            /\ UNCHANGED initialized
       [] o.pc = "get" /\ o.type = "initialize" ->
            /\ cache' = AdapterGetDefaults(store, o.arg.schema)
            /\ initialized' = TRUE
            /\ ops' = [ops EXCEPT ![i] = Fulfil(o, cache')]
            /\ UNCHANGED store
       [] o.pc = "get" /\ o.type = "update" ->
            /\ ops' = [ops EXCEPT ![i] =
                 [Suspend(o, "fn") EXCEPT
                    !.cur = UpdateCurrent(AdapterGetKeys(store, {o.arg.key}),
                                          o.arg.key)]]
            /\ UNCHANGED <<store, cache, initialized>>
       [] o.pc = "get" /\ o.type = "moveToSet" ->
            LET remote == AdapterGetKeys(store, {o.arg.fromKey, o.arg.toKey})
            IN /\ ops' = [ops EXCEPT ![i] =
                    IF MoveThrows(remote, o.arg.fromKey, o.arg.toKey)
                    THEN Reject(o, "typeError")
                    ELSE SetInternalEnter(o,
                           MoveItems(remote, o.arg.fromKey, o.arg.toKey, o.arg.item),
                           TRUE)]
               /\ UNCHANGED <<store, cache, initialized>>
  /\ UNCHANGED <<extWrites, store0, changeEvents, wvars, fvars>>

\* The backing-store call operation i is suspended on is rejected: the error
\* leaves the body (moveToSet's catch blocks log and rethrow).
AdapterFail(i) ==
  /\ i \in DOMAIN ops
  /\ ops[i].st = "running"
  /\ ops[i].pc \in {"get", "baseRead", "write", "clear"}
  /\ ~MicrotaskPending
  /\ cache' = IF ops[i].pc = "write" THEN CacheAfterWrite(ops[i], FALSE) ELSE cache
  /\ ops' = [ops EXCEPT ![i] = Reject(@, "adapter")]
  /\ UNCHANGED <<store, initialized, extWrites, store0, changeEvents, wvars, fvars>>

\* update: await updateFn(currentValue) settles, then _setInternal is entered
FnDone(i) ==
  /\ i \in DOMAIN ops
  /\ ops[i].st = "running"
  /\ ops[i].pc = "fn"
  /\ ops' = [ops EXCEPT ![i] =
       SetInternalEnter(@, Single(@.arg.key, ApplyFn(@.arg.fn, @.arg.item, @.cur)),
                        FALSE)]
  /\ UNCHANGED <<store, cache, initialized, extWrites, store0, changeEvents, wvars, fvars>>

-----------------------------------------------------------------------------
(* The background service worker: storageOp requests and the write buffer *)

chunkSize == 20
MaxAttempts == 3

\* An object whose key order matters (Object.keys): keys in insertion order, and
\* the values.
OEmpty == [keys |-> <<>>, val |-> EmptyObj]

OSingle(k, v) == [keys |-> <<k>>, val |-> Single(k, v)]

\* { ...a, ...b } with its key order: a's keys, then b's new ones
OMerge(a, b) ==
  [keys |-> a.keys \o SelectSeq(b.keys, LAMBDA k : k \notin Range(a.keys)),
   val |-> Merge(a.val, b.val)]

\* (mutant) the spread is written the other way round: the buffered value wins
BufferWriteKeepOld(pending, args) == OMerge(args, pending)

\* case 'set': globalThis._pendingWrites = { ...globalThis._pendingWrites, ...args }
BufferWrite(pending, args) == OMerge(pending, args)

\* (mutant) the snapshot is not put back
RemergeNothing(toWrite, pending) == pending

\* (mutant) the snapshot is spread last, over the writes that arrived meanwhile
RemergeStaleWins(toWrite, pending) == OMerge(pending, toWrite)

\* on permanent failure: { ...toWrite, ...globalThis._pendingWrites }
Remerge(toWrite, pending) == OMerge(toWrite, pending)

\* chunkObj of keys.slice(i, i + chunkSize)
ChunkObj(toWrite, i) ==
  LET last == IF i + chunkSize < Len(toWrite.keys) THEN i + chunkSize
              ELSE Len(toWrite.keys)
  IN Pick(toWrite.val, Range(SubSeq(toWrite.keys, i + 1, last)))

NoFlush ==
  [pc |-> "idle", toWrite |-> OEmpty, i |-> 0, attempt |-> 0, wait |-> 0,
   trigger |-> 0]

\* (mutant) a chunk is retried once only
MayRetryOnce(chunkAttempt) == chunkAttempt < 2

\* if (chunkAttempt < 3): a failed attempt is followed by a backoff and a retry
MayRetry(chunkAttempt) == chunkAttempt < MaxAttempts

\* (mutant) the flag is reset on the success path only
InProgressAfterCycleSuccessOnly(ok) == ~ok

\* finally { globalThis._flushInProgress = false }: the flag after a cycle that
\* ended in success (ok) or in permanent failure
InProgressAfterCycle(ok) == FALSE

\* writeChunkWithRetry's bookkeeping
MetricsAfterSuccess(m) ==
  [m EXCEPT !.flushedCount = @ + 1, !.lastFlushError = "null"]

\* (mutant) every failed attempt is counted as a failed flush
MetricsAfterFailureEachAttempt(m, err, chunkAttempt) ==
  [m EXCEPT !.lastFlushError = err, !.failedFlushCount = @ + 1]

MetricsAfterFailure(m, err, chunkAttempt) ==
  [m EXCEPT !.lastFlushError = err,
            !.failedFlushCount = IF chunkAttempt < MaxAttempts THEN @ ELSE @ + 1]

FlusherInit ==
  /\ pendingWrites = OEmpty
  /\ pendingFlushTimer = FALSE
  /\ flushInProgress = FALSE
  /\ flush = NoFlush
  /\ flushMetrics = [flushedCount |-> 0, failedFlushCount |-> 0,
                     lastFlushError |-> "null"]
  /\ flushCycles = 0
  /\ accepted = EmptyObj
  /\ reqs = <<>>

\* a request as it arrives; seen is history: the values acknowledged to callers
\* of 'set' before it arrived
NewReq(op, args) ==
  [op |-> op, args |-> args, pc |-> "start", wait |-> 0, resp |-> "none",
   result |-> EmptyObj, cyc |-> 0, seen |-> accepted]

\* (mutant) the handler answers ok whatever the outcome
RespondAlwaysOk(rq, ok, result) ==
  [rq EXCEPT !.pc = "done", !.wait = 0, !.resp = "ok",
             !.result = result, !.cyc = flushCycles]

\* sendResponse({ ok: true, result }) / sendResponse({ ok: false, error });
\* cyc (history) is the number of flush cycles started before the answer
Respond(rq, ok, result) ==
  [rq EXCEPT !.pc = "done", !.wait = 0, !.resp = IF ok THEN "ok" ELSE "error",
             !.result = result, !.cyc = flushCycles]

\* (mutant) the in-progress guard is missing
FlushSkipsIfEmpty == pendingWrites.keys = <<>>

\* the two early returns of flushPendingWrites: nothing buffered, or a flush is
\* already in progress
FlushSkips == pendingWrites.keys = <<>> \/ flushInProgress

\* flushPendingWrites() up to its first await, called by the timer (trigger 0) or
\* by the handler of request `trigger`; rs is reqs with that request in it.
FlushPendingWrites(trigger, rs) ==
  IF FlushSkips
  THEN /\ reqs' = IF trigger = 0 THEN rs
                  ELSE [rs EXCEPT ![trigger] = Respond(@, TRUE, EmptyObj)]
       /\ UNCHANGED <<pendingWrites, flushInProgress, flush, flushCycles, ops>>
  ELSE /\ flushInProgress' = TRUE
       /\ pendingWrites' = OEmpty
       /\ flush' = [pc |-> "write", toWrite |-> pendingWrites, i |-> 0,
                    attempt |-> 1, wait |-> Len(ops) + 1, trigger |-> trigger]
       /\ ops' = Chain(ops, "set", [items |-> ChunkObj(pendingWrites, 0)], "flush")
       /\ flushCycles' = flushCycles + 1
       /\ reqs' = IF trigger = 0 THEN rs
                  ELSE [rs EXCEPT ![trigger] = [@ EXCEPT !.pc = "flush"]]

\* the operation a storageOp request hands to callMethod
MethodOf(rq) ==
  CASE rq.op = "get" -> [type |-> "get", arg |-> [keys |-> DOMAIN rq.args]]
    [] rq.op = "moveToSet" -> [type |-> "moveToSet", arg |-> rq.args]
    [] rq.op = "addToSet" ->
         [type |-> "update",
          arg |-> [key |-> rq.args.key, fn |-> "add", item |-> rq.args.item]]
    [] rq.op = "removeFromSet" ->
         [type |-> "update",
          arg |-> [key |-> rq.args.key, fn |-> "remove", item |-> rq.args.item]]
    [] rq.op = "export" -> [type |-> "export", arg |-> [none |-> TRUE]]

\* the switch (op) of the storageOp handler, for request r of rs
Dispatch(rs, r) ==
  LET rq == rs[r] IN
  CASE rq.op = "set" ->
         /\ pendingWrites' = BufferWrite(pendingWrites, rq.args)
         /\ pendingFlushTimer' = TRUE
         /\ reqs' = [rs EXCEPT ![r] = Respond(@, TRUE, EmptyObj)]
         /\ accepted' = Merge(accepted, rq.args.val)
         /\ UNCHANGED <<ops, flushInProgress, flush, flushCycles>>
    [] rq.op \in {"get", "moveToSet", "addToSet", "removeFromSet", "export"} ->
         /\ ops' = Chain(ops, MethodOf(rq).type, MethodOf(rq).arg, "rpc")
         /\ reqs' = [rs EXCEPT ![r] = [@ EXCEPT !.pc = "call", !.wait = Len(ops) + 1]]
         /\ UNCHANGED <<pendingWrites, pendingFlushTimer, flushInProgress, flush,
                        flushCycles, accepted>>
    [] rq.op = "status" ->
         /\ reqs' = [rs EXCEPT ![r] = Respond(@, TRUE, pendingWrites.val)]
         /\ UNCHANGED <<ops, pendingWrites, pendingFlushTimer, flushInProgress,
                        flush, flushCycles, accepted>>
    [] rq.op = "flush" ->
         /\ FlushPendingWrites(r, rs)
         /\ UNCHANGED <<pendingFlushTimer, accepted>>
    [] rq.op = "flushNow" ->
         /\ pendingFlushTimer' = FALSE
         /\ FlushPendingWrites(r, rs)
         /\ UNCHANGED accepted

\* A storageOp message arrives: the handler runs to its first await.
Rpc(op, args) ==
  /\ Len(reqs) < MaxReqs
  /\ ~MicrotaskPending
  /\ LET r == Len(reqs) + 1
         rs == Append(reqs, NewReq(op, args))
     IN IF ~initialized
        THEN /\ ops' = Chain(ops, "initialize",
                         [schema |-> IF op = "get" THEN args ELSE EmptyObj], "rpc")
             /\ reqs' = [rs EXCEPT ![r] = [@ EXCEPT !.pc = "init",
                                                    !.wait = Len(ops) + 1]]
             /\ UNCHANGED <<pendingWrites, pendingFlushTimer, flushInProgress,
                            flush, flushCycles, accepted>>
        ELSE Dispatch(rs, r)
  /\ UNCHANGED <<store, cache, initialized, extWrites, store0, changeEvents, wvars, flushMetrics>>

\* A storageMove message arrives: moveToSet is called at once, without
\* initialization, and the request is answered when its promise settles.
StorageMove(args) ==
  /\ Len(reqs) < MaxReqs
  /\ ~MicrotaskPending
  /\ ops' = Chain(ops, "moveToSet", args, "rpc")
  /\ reqs' = Append(reqs, [NewReq("storageMove", args) EXCEPT
                             !.pc = "call", !.wait = Len(ops) + 1])
  /\ UNCHANGED <<store, cache, initialized, extWrites, store0, changeEvents, wvars, pendingWrites,
                 pendingFlushTimer, flushInProgress, flush, flushMetrics,
                 flushCycles, accepted>>

\* await storageManager.initialize(initSchema) settles (a failure is caught and
\* logged), and the handler goes on to its switch.
RpcInitDone(r) ==
  /\ r \in DOMAIN reqs
  /\ reqs[r].pc = "init"
  /\ Settled(ops[reqs[r].wait])
  /\ Dispatch(reqs, r)
  /\ UNCHANGED <<store, cache, initialized, extWrites, store0, changeEvents, wvars, flushMetrics>>

\* await callMethod(...) settles: the handler answers
RpcCallDone(r) ==
  /\ r \in DOMAIN reqs
  /\ reqs[r].pc = "call"
  /\ Settled(ops[reqs[r].wait])
  /\ LET o == ops[reqs[r].wait]
     IN reqs' = [reqs EXCEPT ![r] = Respond(@, o.st = "fulfilled", o.res)]
  /\ UNCHANGED <<store, cache, initialized, ops, extWrites, store0, changeEvents, wvars, pendingWrites,
                 pendingFlushTimer, flushInProgress, flush, flushMetrics,
                 flushCycles, accepted>>

\* the debounce timer of scheduleFlush fires
TimerFire ==
  /\ pendingFlushTimer
  /\ ~MicrotaskPending
  /\ pendingFlushTimer' = FALSE
  /\ FlushPendingWrites(0, reqs)
  /\ UNCHANGED <<store, cache, initialized, extWrites, store0, changeEvents, wvars, flushMetrics, accepted>>

\* await callMethod('set', chunkObj) settles in writeChunkWithRetry
FlushWriteDone ==
  /\ flush.pc = "write"
  /\ Settled(ops[flush.wait])
  /\ LET o == ops[flush.wait]
         next == flush.i + chunkSize
         answer(ok) == IF flush.trigger = 0 THEN reqs
                       ELSE [reqs EXCEPT ![flush.trigger] = Respond(@, ok, EmptyObj)]
     IN IF o.st = "fulfilled"
        THEN /\ flushMetrics' = MetricsAfterSuccess(flushMetrics)
             /\ IF next < Len(flush.toWrite.keys)
                THEN /\ ops' = Chain(ops, "set",
                                 [items |-> ChunkObj(flush.toWrite, next)], "flush")
                     /\ flush' = [flush EXCEPT !.i = next, !.attempt = 1,
                                               !.wait = Len(ops) + 1]
                     /\ UNCHANGED <<flushInProgress, reqs>>
                ELSE /\ flushInProgress' = InProgressAfterCycle(TRUE)
                     /\ flush' = NoFlush
                     /\ reqs' = answer(TRUE)
                     /\ UNCHANGED ops
             /\ UNCHANGED pendingWrites
        ELSE /\ flushMetrics' = MetricsAfterFailure(flushMetrics, o.err, flush.attempt)
             /\ IF MayRetry(flush.attempt)
                THEN /\ flush' = [flush EXCEPT !.pc = "backoff", !.wait = 0]
                     /\ UNCHANGED <<pendingWrites, flushInProgress, reqs>>
                ELSE /\ pendingWrites' = Remerge(flush.toWrite, pendingWrites)
                     /\ flushInProgress' = InProgressAfterCycle(FALSE)
                     /\ flush' = NoFlush
                     /\ reqs' = answer(FALSE)
             /\ UNCHANGED ops
  /\ UNCHANGED <<store, cache, initialized, extWrites, store0, changeEvents, wvars, pendingFlushTimer,
                 flushCycles, accepted>>

\* the backoff timer fires: writeChunkWithRetry(chunkObj, chunkAttempt + 1)
FlushBackoffDone ==
  /\ flush.pc = "backoff"
  /\ ~MicrotaskPending
  /\ ops' = Chain(ops, "set", [items |-> ChunkObj(flush.toWrite, flush.i)], "flush")
  /\ flush' = [flush EXCEPT !.pc = "write", !.attempt = @ + 1, !.wait = Len(ops) + 1]
  /\ UNCHANGED <<store, cache, initialized, extWrites, store0, changeEvents, wvars, pendingWrites,
                 pendingFlushTimer, flushInProgress, flushMetrics, flushCycles,
                 accepted, reqs>>

-----------------------------------------------------------------------------
(* Callers of the StorageManager API, and the other contexts *)

\* the schema of the word lists, and the {} the RPC handler passes
WordSchema == [k \in SetKeys |-> <<>>]

\* arrays found in the store at start or written by other contexts
Arrays == {<<>>, <<"x">>, <<"x", "y">>}

\* objects a caller passes to set
SetInputs == {Single(ACTIVE, <<"x">>), Single(KNOWN, <<"y">>)}

\* initialize(schema): returns this.cache at once when already initialized
CallInitialize(schema) ==
  IF initialized
  THEN UNCHANGED vars
  ELSE /\ Enqueue("initialize", [schema |-> schema], "caller")
       /\ UNCHANGED <<store, cache, initialized, extWrites, store0, changeEvents, wvars, fvars>>

CallGet(keys) ==
  /\ Enqueue("get", [keys |-> keys], "caller")
  /\ UNCHANGED <<store, cache, initialized, extWrites, store0, changeEvents, wvars, fvars>>

CallSet(items) ==
  /\ Enqueue("set", [items |-> items], "caller")
  /\ UNCHANGED <<store, cache, initialized, extWrites, store0, changeEvents, wvars, fvars>>

\* addToSet(key, item) is update(key, add item); removeFromSet likewise
CallUpdate(key, fn, item) ==
  /\ Enqueue("update", [key |-> key, fn |-> fn, item |-> item], "caller")
  /\ UNCHANGED <<store, cache, initialized, extWrites, store0, changeEvents, wvars, fvars>>

CallMoveToSet(fromKey, toKey, item) ==
  /\ Enqueue("moveToSet", [fromKey |-> fromKey, toKey |-> toKey, item |-> item],
             "caller")
  /\ UNCHANGED <<store, cache, initialized, extWrites, store0, changeEvents, wvars, fvars>>

CallClear ==
  /\ Enqueue("clear", [none |-> TRUE], "caller")
  /\ UNCHANGED <<store, cache, initialized, extWrites, store0, changeEvents, wvars, fvars>>

CallExport ==
  /\ Enqueue("export", [none |-> TRUE], "caller")
  /\ UNCHANGED <<store, cache, initialized, extWrites, store0, changeEvents, wvars, fvars>>

\* another context (popup, content script) writes chrome.storage.local itself
ExternalWrite(k, v) ==
  /\ extWrites < MaxExt
  /\ extWrites' = extWrites + 1
  /\ store' = AdapterSet(store, Single(k, v))
  /\ UNCHANGED <<cache, initialized, ops, store0, changeEvents, wvars, fvars>>

\* the changes object of an event that reports k set to v
Change(k, v) == Single(k, [newValue |-> v])

\* for (const [key, { newValue }] of Object.entries(changes)): key -> newValue
NewValues(changes) == [k \in DOMAIN changes |-> changes[k].newValue]

\* (mutant) the listener does not look at the area
CacheAfterChangeAnyArea(c, areaName, changes) ==
  IF c # Null THEN Merge(c, NewValues(changes)) ELSE c

\* the cache after the listener's loop: for the local area every new value is
\* assigned into this.cache, when there is one
CacheAfterChange(c, areaName, changes) ==
  IF areaName = "local" /\ c # Null THEN Merge(c, NewValues(changes)) ELSE c

\* the calls of the caller's callback that one event makes, each with the cache
\* the callback finds
CallbackCalls(c, areaName, changes) ==
  IF areaName = "local" THEN <<[changes |-> changes, cache |-> c]>> ELSE <<>>

\* chrome.storage.onChanged delivers an event to the listener registered by
\* onChanged(callback)
OnChanged(areaName, changes) ==
  /\ Len(changeEvents) < MaxEvents
  /\ ~MicrotaskPending
  /\ cache' = CacheAfterChange(cache, areaName, changes)
  /\ changeEvents' = Append(changeEvents,
                             [areaName |-> areaName, changes |-> changes,
                              calls |-> CallbackCalls(cache', areaName, changes)])
  /\ UNCHANGED <<store, initialized, ops, extWrites, store0, wvars, fvars>>

\* another context removes a key: chrome.storage.local.remove(k)
ExternalRemove(k) ==
  /\ extWrites < MaxExt
  /\ k \in DOMAIN store
  /\ extWrites' = extWrites + 1
  /\ store' = AdapterRemove(store, k)
  /\ UNCHANGED <<cache, initialized, ops, store0, changeEvents, wvars, fvars>>

\* what chrome.storage.local holds when the context starts
InitStores ==
  {EmptyObj, Pair(KNOWN, <<"x">>, UNKNOWN, <<"x", "y">>),
   Pair(KNOWN, <<>>, UNKNOWN, <<"y">>)}

Init ==
  /\ store \in InitStores
  /\ cache = Null
  /\ initialized = FALSE
  /\ ops = <<>>
  /\ extWrites = 0
  /\ store0 = store
  /\ changeEvents = <<>>
  /\ system = [knownWords |-> {}, unknownWords |-> {}]
  /\ syncQueue = <<>>
  /\ sentMoves = <<>>
  /\ mimic = [nativeLines |-> 0, mimicLines |-> 0, lineCount |-> 0,
              isActive |-> TRUE, awaiting |-> 0, scanned |-> FALSE]
  /\ FlusherInit

\* the steps of the queue: then-callbacks, adapter completions, update functions
QueueStep ==
  \/ \E i \in DOMAIN ops : Start(i)
  \/ \E i \in DOMAIN ops : AdapterOk(i)
  \/ \E i \in DOMAIN ops : AdapterFail(i)
  \/ \E i \in DOMAIN ops : FnDone(i)

\* Spec: direct callers of every operation of the API on one StorageManager
Next ==
  \/ CallInitialize(WordSchema)
  \/ CallGet(SetKeys)
  \/ \E items \in SetInputs : CallSet(items)
  \/ \E fn \in {"add", "remove"} : CallUpdate(KNOWN, fn, "x")
  \/ \E fromKey \in SetKeys, item \in Items :
       CallMoveToSet(fromKey, CHOOSE k \in SetKeys : k # fromKey, item)
  \/ CallClear
  \/ CallExport
  \/ QueueStep

Spec == Init /\ [][Next]_vars

\* SpecMove: callers of initialize and moveToSet, with other contexts writing the
\* word lists
NextMove ==
  \/ CallInitialize(WordSchema)
  \/ \E fromKey \in SetKeys, item \in Items :
       CallMoveToSet(fromKey, CHOOSE k \in SetKeys : k # fromKey, item)
  \/ \E i \in DOMAIN ops : Start(i)
  \/ \E i \in DOMAIN ops : AdapterOk(i)
  \/ \E i \in DOMAIN ops : AdapterFail(i)
  \/ \E k \in SetKeys, v \in Arrays : ExternalWrite(k, v)

SpecMove == Init /\ [][NextMove]_vars

\* objects the content scripts pass to the 'set' request
FlushInputs ==
  {OSingle(ACTIVE, <<"x">>), OSingle(ACTIVE, <<"y">>),
   [keys |-> <<KNOWN, UNKNOWN>>, val |-> Pair(KNOWN, <<>>, UNKNOWN, <<"y">>)]}

\* SpecFlush: the service worker serving storageOp requests, its write buffer and
\* the StorageManager behind it
NextFlush ==
  \/ \E args \in FlushInputs : Rpc("set", args)
  \/ Rpc("flush", EmptyObj)
  \/ Rpc("flushNow", EmptyObj)
  \/ Rpc("moveToSet", [fromKey |-> UNKNOWN, toKey |-> KNOWN, item |-> "x"])
  \/ \E r \in DOMAIN reqs : RpcInitDone(r)
  \/ \E r \in DOMAIN reqs : RpcCallDone(r)
  \/ TimerFire
  \/ FlushWriteDone
  \/ FlushBackoffDone
  \/ \E i \in DOMAIN ops : Start(i)
  \/ \E i \in DOMAIN ops : AdapterOk(i)
  \/ \E i \in DOMAIN ops : AdapterFail(i)

SpecFlush == Init /\ [][NextFlush]_vars

\* a 'set' request with more keys than one chunk holds
ManyKeys ==
  <<"k01", "k02", "k03", "k04", "k05", "k06", "k07", "k08", "k09", "k10", "k11",
    "k12", "k13", "k14", "k15", "k16", "k17", "k18", "k19", "k20", "k21">>
ManyWrites == [keys |-> ManyKeys, val |-> [k \in Range(ManyKeys) |-> <<"x">>]]

\* SpecChunk: the service worker buffering and flushing a write of several chunks
NextChunk ==
  \/ Rpc("set", ManyWrites)
  \/ Rpc("set", OSingle(ACTIVE, <<"y">>))
  \/ Rpc("set", OSingle(ManyKeys[1], <<"y">>))
  \/ Rpc("flushNow", EmptyObj)
  \/ \E r \in DOMAIN reqs : RpcInitDone(r)
  \/ TimerFire
  \/ FlushWriteDone
  \/ FlushBackoffDone
  \/ \E i \in DOMAIN ops : Start(i)
  \/ \E i \in DOMAIN ops : AdapterOk(i)
  \/ \E i \in DOMAIN ops : AdapterFail(i)

SpecChunk == Init /\ [][NextChunk]_vars

\* SpecRpc: the service worker serving get, set, status, flush and storageMove
\* requests of the content scripts and the popup
NextRpc ==
  \/ Rpc("get", WordSchema)
  \/ Rpc("set", OSingle(KNOWN, <<"y">>))
  \/ Rpc("status", EmptyObj)
  \/ Rpc("flush", EmptyObj)
  \/ StorageMove([fromKey |-> UNKNOWN, toKey |-> KNOWN, item |-> "x"])
  \/ \E r \in DOMAIN reqs : RpcInitDone(r)
  \/ \E r \in DOMAIN reqs : RpcCallDone(r)
  \/ TimerFire
  \/ FlushWriteDone
  \/ FlushBackoffDone
  \/ \E i \in DOMAIN ops : Start(i)
  \/ \E i \in DOMAIN ops : AdapterOk(i)
  \/ \E i \in DOMAIN ops : AdapterFail(i)

SpecRpc == Init /\ [][NextRpc]_vars

\* objects the callers of SpecWrite pass to set: one key, then the same key with
\* another value together with a second key
WriteInputs == {Single(ACTIVE, <<"x">>), Pair(ACTIVE, <<"y">>, KNOWN, <<"y">>)}

\* SpecFrame: a caller of initialize, set and moveToSet, with another context
\* writing a key that is neither of the two sets
NextFrame ==
  \/ CallInitialize(WordSchema)
  \/ CallSet(Single(ACTIVE, <<"x">>))
  \/ CallMoveToSet(UNKNOWN, KNOWN, "x")
  \/ \E i \in DOMAIN ops : Start(i)
  \/ \E i \in DOMAIN ops : AdapterOk(i)
  \/ \E i \in DOMAIN ops : AdapterFail(i)
  \/ ExternalWrite(ACTIVE, <<"y">>)

SpecFrame == Init /\ [][NextFrame]_vars

\* the events delivered in SpecChange
ChangeInputs == {Change(KNOWN, <<"y">>), Merge(Change(ACTIVE, <<"x">>), Change(UNKNOWN, <<>>))}

\* SpecChange: a caller of initialize and set on a manager that listens to storage
\* change events of the local and the sync area
NextChange ==
  \/ CallInitialize(WordSchema)
  \/ CallSet(Single(ACTIVE, <<"y">>))
  \/ \E i \in DOMAIN ops : Start(i)
  \/ \E i \in DOMAIN ops : AdapterOk(i)
  \/ \E i \in DOMAIN ops : AdapterFail(i)
  \/ \E areaName \in {"local", "sync"}, changes \in ChangeInputs :
       OnChanged(areaName, changes)

SpecChange == Init /\ [][NextChange]_vars

\* SpecWrite: callers of initialize, set, addToSet and moveToSet on a manager whose
\* backing store other contexts write and remove keys of
NextWrite ==
  \/ CallInitialize(WordSchema)
  \/ \E items \in WriteInputs : CallSet(items)
  \/ CallUpdate(KNOWN, "add", "y")
  \/ CallMoveToSet(UNKNOWN, KNOWN, "y")
  \/ \E i \in DOMAIN ops : Start(i)
  \/ \E i \in DOMAIN ops : AdapterOk(i)
  \/ \E i \in DOMAIN ops : AdapterFail(i)
  \/ \E i \in DOMAIN ops : FnDone(i)
  \/ ExternalWrite(KNOWN, <<"x">>)
  \/ \E k \in SetKeys : ExternalRemove(k)

SpecWrite == Init /\ [][NextWrite]_vars

-----------------------------------------------------------------------------
(* WordManager: the jobs of the content script and its local word sets *)

\* globalThis.WORD_STATES
WORD_STATES == {"KNOWN", "LEARNING", "UNMARKED"}

JobKinds == {"handleWordClick", "markAsKnown", "markAsUnknown", "removeFromList"}

\* how a storage request of a job ends: answered ok, failed, failed with
\* 'Extension context invalidated', and the latter with chrome.runtime.sendMessage
\* throwing as well
Outcomes == {"ok", "failed", "invalidated", "invalidatedNoSend"}

\* (mutant) the word is added to knownWords and left in unknownWords
SetsAfterNoDelete(sys, state, word) ==
  CASE state = "KNOWN" -> [sys EXCEPT !.knownWords = @ \cup {word}]
    [] state = "LEARNING" -> [sys EXCEPT !.unknownWords = @ \cup {word}]
    [] state = "UNMARKED" ->
         [knownWords |-> sys.knownWords \ {word},
          unknownWords |-> sys.unknownWords \ {word}]

\* this.system.knownWords / unknownWords after the add and delete calls that
\* follow the storage request of a transition to `state`
SetsAfter(sys, state, word) ==
  CASE state = "KNOWN" ->
         [knownWords |-> sys.knownWords \cup {word},
          unknownWords |-> sys.unknownWords \ {word}]
    [] state = "LEARNING" ->
         [knownWords |-> sys.knownWords \ {word},
          unknownWords |-> sys.unknownWords \cup {word}]
    [] state = "UNMARKED" ->
         [knownWords |-> sys.knownWords \ {word},
          unknownWords |-> sys.unknownWords \ {word}]

\* the storageMove message sent when the context is invalidated
MoveMessage(state, word) ==
  [fromKey |-> IF state = "KNOWN" THEN UNKNOWN ELSE KNOWN,
   toKey |-> IF state = "KNOWN" THEN KNOWN ELSE UNKNOWN,
   item |-> word, settled |-> FALSE]

NewJob(kind, word) ==
  [kind |-> kind, word |-> word, st |-> "queued", pc |-> "none",
   next |-> "none", out |-> "none"]

\* (mutant) the job is started when it is submitted
JobReadyNoWait(q, j) == TRUE

\* this._syncQueue.then(() => jobFn()): the job may start once the queue, which
\* catches every error, has settled
JobReady(q, j) == IF j = 1 THEN TRUE ELSE q[j - 1].st = "done"

\* _enqueueSync(jobFn), called by handleWordClick, markAsKnown, markAsUnknown and
\* removeFromList
EnqueueSync(kind, word) ==
  /\ Len(syncQueue) < MaxJobs
  /\ syncQueue' = Append(syncQueue, NewJob(kind, word))
  /\ UNCHANGED <<qvars, extWrites, store0, changeEvents, fvars, system, sentMoves, mimic>>

\* the state a job moves its word to; handleWordClick takes it from
\* getNextWordState, whose code is not in the sources: any state
NextStates(kind) ==
  CASE kind = "markAsKnown" -> {"KNOWN"}
    [] kind = "markAsUnknown" -> {"LEARNING"}
    [] kind = "removeFromList" -> {"UNMARKED"}
    [] kind = "handleWordClick" -> WORD_STATES

\* the job function starts and runs to its first storage request
JobStart(j, nextState) ==
  /\ j \in DOMAIN syncQueue
  /\ syncQueue[j].st = "queued"
  /\ JobReady(syncQueue, j)
  /\ nextState \in NextStates(syncQueue[j].kind)
  /\ syncQueue' = [syncQueue EXCEPT ![j] =
                     [@ EXCEPT !.st = "running", !.pc = "request",
                               !.next = nextState]]
  /\ UNCHANGED <<qvars, extWrites, store0, changeEvents, fvars, system, sentMoves, mimic>>

JobDone(job, out) == [job EXCEPT !.st = "done", !.pc = "none", !.out = out]

\* await delegateStorageOp(...) settles, and the job runs on: to its second
\* request (the two removeFromSet of _applyStateTransition), or to its end
RequestSettles(j, out) ==
  /\ j \in DOMAIN syncQueue
  /\ syncQueue[j].st = "running"
  /\ LET job == syncQueue[j]
         sends == out = "invalidated" /\ job.kind # "removeFromList"
         applies == \/ out = "ok"
                    \/ sends /\ job.kind \in {"markAsKnown", "markAsUnknown"}
     IN IF /\ out = "ok" /\ job.kind = "handleWordClick"
           /\ job.next = "UNMARKED" /\ job.pc = "request"
        THEN /\ syncQueue' = [syncQueue EXCEPT ![j] = [@ EXCEPT !.pc = "request2"]]
             /\ UNCHANGED <<system, sentMoves>>
        ELSE /\ syncQueue' = [syncQueue EXCEPT ![j] = JobDone(@, out)]
             /\ system' = IF applies THEN SetsAfter(system, job.next, job.word)
                          ELSE system
             /\ sentMoves' = IF sends
                             THEN Append(sentMoves, MoveMessage(job.next, job.word))
                             ELSE sentMoves
  /\ UNCHANGED <<qvars, extWrites, store0, changeEvents, fvars, mimic>>

\* the background has handled a storageMove message
MoveSettles(m) ==
  /\ m \in DOMAIN sentMoves
  /\ ~sentMoves[m].settled
  /\ sentMoves' = [sentMoves EXCEPT ![m] = [@ EXCEPT !.settled = TRUE]]
  /\ UNCHANGED <<qvars, extWrites, store0, changeEvents, fvars, system, syncQueue, mimic>>

\* init(): the local sets are built from the stored word lists
LoadWords(known, unknown) ==
  /\ syncQueue = <<>>
  /\ system = [knownWords |-> {}, unknownWords |-> {}]
  /\ known \cup unknown # {}
  /\ system' = [knownWords |-> known, unknownWords |-> unknown]
  /\ UNCHANGED <<qvars, extWrites, store0, changeEvents, fvars, syncQueue, sentMoves, mimic>>

\* SpecWords: one WordManager whose local sets start disjoint, its jobs and the
\* outcomes of their storage requests
NextWords ==
  \/ \E known \in SUBSET Items : \E unknown \in SUBSET (Items \ known) :
       LoadWords(known, unknown)
  \/ \E kind \in JobKinds, word \in Items : EnqueueSync(kind, word)
  \/ \E j \in DOMAIN syncQueue, nextState \in WORD_STATES : JobStart(j, nextState)
  \/ \E j \in DOMAIN syncQueue, out \in Outcomes : RequestSettles(j, out)
  \/ \E m \in DOMAIN sentMoves : MoveSettles(m)

\* the WordManager never touches chrome.storage itself: one backing store is enough
InitWords == Init /\ store = EmptyObj

SpecWords == InitWords /\ [][NextWords]_vars

-----------------------------------------------------------------------------
(* PerfectMimicSubtitleSystem: the mimic lines that mirror the native captions *)

\* scanAndMirror(): the mimic lines are rebuilt when the number of native lines
\* differs from domState.lineCount, and else updated in place, line by line
ScanAndMirror(m) ==
  [m EXCEPT !.mimicLines = IF m.nativeLines # m.lineCount THEN m.nativeLines ELSE @,
            !.lineCount = m.nativeLines,
            !.scanned = TRUE]

\* clearMimicLines(): the container is emptied and mimicLines = []
ClearMimicLines(m) == [m EXCEPT !.mimicLines = 0, !.scanned = FALSE]

\* the other variables, for the steps of the subtitle system
NoStorageStep ==
  UNCHANGED <<qvars, extWrites, store0, changeEvents, fvars, system, syncQueue,
              sentMoves>>

\* the captions change to n lines: the structure observer calls
\* onStructureChange(), a full rescan, unless the system is off
CaptionsChange(n) ==
  /\ n \in 0..MaxLines
  /\ n # mimic.nativeLines
  /\ LET m == [mimic EXCEPT !.nativeLines = n, !.scanned = FALSE]
     IN mimic' = IF m.isActive THEN ScanAndMirror(m) ELSE m
  /\ NoStorageStep

\* a TOGGLE message: isActive is flipped and the handler awaits the storage request
Toggle ==
  /\ mimic.awaiting < MaxToggles
  /\ mimic' = [mimic EXCEPT !.isActive = ~@, !.awaiting = @ + 1, !.scanned = FALSE]
  /\ NoStorageStep

\* the storage request of a TOGGLE handler settles: on success the handler
\* mirrors the captions or clears the mimic lines, as isActive says now
ToggleDone(ok) ==
  /\ mimic.awaiting > 0
  /\ LET m == [mimic EXCEPT !.awaiting = @ - 1, !.scanned = FALSE]
     IN mimic' = IF ~ok THEN m
                 ELSE IF m.isActive THEN ScanAndMirror(m) ELSE ClearMimicLines(m)
  /\ NoStorageStep

\* a REFRESH message
Refresh ==
  /\ mimic' = ScanAndMirror(mimic)
  /\ NoStorageStep

\* updateIncrementally(): mimic lines are appended or removed until there are as
\* many as native lines
UpdateIncrementally ==
  /\ mimic' = [mimic EXCEPT !.mimicLines = mimic.nativeLines,
                            !.lineCount = mimic.nativeLines,
                            !.scanned = FALSE]
  /\ NoStorageStep

\* SpecMimic: the subtitle system after setupMimicSystem, its captions, and the
\* TOGGLE and REFRESH messages of the popup
NextMimic ==
  \/ \E n \in 0..MaxLines : CaptionsChange(n)
  \/ Toggle
  \/ \E ok \in BOOLEAN : ToggleDone(ok)
  \/ Refresh
  \/ UpdateIncrementally

InitMimic == Init /\ store = EmptyObj

SpecMimic == InitMimic /\ [][NextMimic]_vars

-----------------------------------------------------------------------------
(* Claims about the queue (Spec) *)

IsMove(o) == o.type = "moveToSet"

\* C1: for operations X before Y on one StorageManager, the body of Y begins only
\* after the body of X has completed, by success or by failure, also while X is
\* an update suspended in its update function; so at most one operation, and
\* at most one backing-store call, is in flight at any time.
C1_QueueSerialises ==
  /\ \A i \in DOMAIN ops : \A j \in DOMAIN ops :
       (i < j /\ ops[j].ran) => Settled(ops[i])
  /\ Cardinality({i \in DOMAIN ops : ops[i].st = "running"}) <= 1

\* an operation failed in its own body and a later one ran and succeeded
C1_Witness ==
  \E i \in DOMAIN ops : \E j \in DOMAIN ops :
    /\ i < j
    /\ ops[i].st = "rejected" /\ ops[i].ran
    /\ ops[j].st = "fulfilled"

\* C2: a failure is the result of the failing operation only; every operation
\* chained after it still executes its body.  (Violated: a rejected get, set,
\* update, initialize, clear or export is what the next operation is chained on,
\* so the next then-callback is never called.)
C2_LaterOpsRunTheirBody ==
  \A j \in DOMAIN ops : Settled(ops[j]) => ops[j].ran

-----------------------------------------------------------------------------
(* Claims about moveToSet (SpecMove) *)

InArr(obj, k, e) == IF k \in DOMAIN obj THEN e \in Range(obj[k]) ELSE FALSE

\* C3: when a moveToSet completes successfully the item is in toKey and not in
\* fromKey, in the backing store and in the cache, whatever its membership was;
\* and every other element the backing store held in either set when the
\* operation read it is still in that set.
C3_MoveResult ==
  [][\A i \in DOMAIN ops :
       LET o == ops[i]
           n == ops'[i]
       IN /\ (IsMove(o) /\ o.pc = "get" /\ n.st = "running" /\ n.pc = "write") =>
               \A k \in {o.arg.fromKey, o.arg.toKey} : \A e \in Items \ {o.arg.item} :
                 InArr(store, k, e) => InArr(n.items, k, e)
          /\ (IsMove(o) /\ o.st = "running" /\ n.st = "fulfilled") =>
               /\ InArr(store', o.arg.toKey, o.arg.item)
               /\ ~InArr(store', o.arg.fromKey, o.arg.item)
               /\ InArr(cache', o.arg.toKey, o.arg.item)
               /\ ~InArr(cache', o.arg.fromKey, o.arg.item)
               /\ \A k \in {o.arg.fromKey, o.arg.toKey} :
                    k \in DOMAIN store' /\ k \in DOMAIN cache'
                    /\ store'[k] = o.items[k] /\ cache'[k] = o.items[k]
    ]_vars

\* a moveToSet succeeded, with another element left in the set it took the item from
C3_Witness ==
  \E i \in DOMAIN ops :
    /\ IsMove(ops[i]) /\ ops[i].st = "fulfilled"
    /\ InArr(store, ops[i].arg.toKey, ops[i].arg.item)
    /\ \E e \in Items \ {ops[i].arg.item} : InArr(store, ops[i].arg.fromKey, e)

\* C4: when the persist call of a moveToSet fails the operation is rejected, and
\* no step of a moveToSet other than its successful completion changes the
\* backing store or the cache.
C4_FailedMoveChangesNothing ==
  [][\A i \in DOMAIN ops :
       LET o == ops[i]
           n == ops'[i]
       IN (IsMove(o) /\ n # o /\ n.st # "fulfilled") =>
            /\ store' = store
            /\ cache' = cache
            /\ (o.pc = "write" => n.st = "rejected" /\ n.err = "adapter")
    ]_vars

\* a moveToSet was rejected at its persist call
C4_Witness ==
  \E i \in DOMAIN ops :
    IsMove(ops[i]) /\ ops[i].st = "rejected" /\ ops[i].pc = "write"

FulfilledMoves(item) ==
  {i \in DOMAIN ops : IsMove(ops[i]) /\ ops[i].st = "fulfilled" /\ ops[i].arg.item = item}

Last(S) == CHOOSE i \in S : \A j \in S : j <= i

\* C5: with no writer but the moveToSet calls, every item is where the last
\* successful moveToSet for it put it (in its toKey and not in its fromKey),
\* whatever moves of other items were issued before, meanwhile or afterwards.
C5_ConcurrentMovesKeepBoth ==
  extWrites = 0 =>
    \A item \in Items :
      FulfilledMoves(item) # {} =>
        LET o == ops[Last(FulfilledMoves(item))]
        IN InArr(store, o.arg.toKey, item) /\ ~InArr(store, o.arg.fromKey, item)

\* two moveToSet calls for different items have both succeeded
C5_Witness ==
  /\ extWrites = 0
  /\ \E i \in DOMAIN ops : \E j \in DOMAIN ops :
       /\ i < j
       /\ IsMove(ops[i]) /\ ops[i].st = "fulfilled"
       /\ IsMove(ops[j]) /\ ops[j].st = "fulfilled"
       /\ ops[i].arg.item # ops[j].arg.item

-----------------------------------------------------------------------------
(* Claims about the write buffer (SpecFlush) *)

ByFlush(o) == o.by = "flush"

\* the chunk writes that have reached the backing store and succeeded, for key k
WrittenOps(k) ==
  {i \in DOMAIN ops : ByFlush(ops[i]) /\ ops[i].st = "fulfilled"
                      /\ k \in DOMAIN ops[i].arg.items}

Holds(obj, k, v) == IF k \in DOMAIN obj THEN obj[k] = v ELSE FALSE

\* C6: no accepted write is dropped: the latest value accepted for a key is in
\* the buffer, or in the snapshot of the flush in progress, or is the value the
\* latest successful chunk write of that key wrote; after a failed flush there is
\* no snapshot, so it is in the buffer.
C6_NoWriteDropped ==
  \A k \in DOMAIN accepted :
    \/ Holds(pendingWrites.val, k, accepted[k])
    \/ flush.pc # "idle" /\ Holds(flush.toWrite.val, k, accepted[k])
    \/ /\ WrittenOps(k) # {}
       /\ ops[Last(WrittenOps(k))].arg.items[k] = accepted[k]

\* a flush has failed for good and the accepted value is back in the buffer
C6_Witness ==
  /\ flushMetrics.failedFlushCount > 0
  /\ flush.pc = "idle"
  /\ \E k \in DOMAIN accepted : Holds(pendingWrites.val, k, accepted[k])

\* C7: entries put back into the buffer by a permanent failure are retried without
\* a further request: when a flush cycle ends in permanent failure, a flush is
\* scheduled (the debounce timer is pending) or a request is still being served.
\* (Violated: the failure path re-merges and schedules nothing.)
C7_ReinsertedEntriesAreRescheduled ==
  [][(flushMetrics'.failedFlushCount > flushMetrics.failedFlushCount) =>
       \/ pendingFlushTimer'
       \/ \E r \in DOMAIN reqs' : reqs'[r].pc # "done"
    ]_vars

\* the chunk writes that failed in their own body (at the adapter, or uninitialized)
FailedChunkWrites ==
  {i \in DOMAIN ops : ByFlush(ops[i]) /\ ops[i].st = "rejected" /\ ops[i].ran}

\* C8: a chunk whose write fails twice and then succeeds is flushed, and no
\* permanent failure is recorded: every permanent failure recorded stands for
\* three chunk writes that failed.  (Violated: after one failed write the next
\* attempts are rejected by the poisoned queue without reaching the store.)
C8_PermanentFailureTakesThreeFailedWrites ==
  Cardinality(FailedChunkWrites) >= MaxAttempts * flushMetrics.failedFlushCount

\* C9: when the last attempt for a chunk fails, every key of the snapshot is
\* listed in Object.keys(_pendingWrites) again and failedFlushCount goes up by
\* one; no other step changes failedFlushCount.
C9_PermanentFailureRebuffers ==
  [][/\ (flush.pc = "write" /\ flush'.pc = "idle"
         /\ ops[flush.wait].st = "rejected") =>
          /\ flush.attempt = MaxAttempts
          /\ \A k \in Range(flush.toWrite.keys) : k \in Range(pendingWrites'.keys)
          /\ flushMetrics'.failedFlushCount = flushMetrics.failedFlushCount + 1
     /\ (flushMetrics'.failedFlushCount # flushMetrics.failedFlushCount) =>
          /\ flush.pc = "write" /\ flush'.pc = "idle"
          /\ ops[flush.wait].st = "rejected"
    ]_vars

\* a flush cycle has ended in permanent failure and its keys are pending again
C9_Witness ==
  /\ flushMetrics.failedFlushCount = 1
  /\ flush.pc = "idle"
  /\ pendingWrites.keys # <<>>

\* two 'set' requests for one key with different values, both answered before
\* any flush cycle started, and no other request
Collapsed ==
  /\ Len(reqs) = 2
  /\ \A r \in DOMAIN reqs :
       reqs[r].op = "set" /\ reqs[r].resp = "ok" /\ reqs[r].cyc = 0
  /\ reqs[1].args.keys = reqs[2].args.keys
  /\ Len(reqs[1].args.keys) = 1
  /\ reqs[1].args.val # reqs[2].args.val

\* the chunk writes whose chrome.storage.local.set was issued
IssuedWrites ==
  {i \in DOMAIN ops : ByFlush(ops[i]) /\ (ops[i].st = "fulfilled" \/ ops[i].pc = "write")}

\* C10: two 'set' requests for the same key collapse: at most one flush cycle
\* runs, every chunk write it chains carries the later value only, and at most
\* one write reaches the backing store.
C10_DebounceCollapse ==
  Collapsed =>
    /\ flushCycles <= 1
    /\ \A i \in DOMAIN ops : ByFlush(ops[i]) => ops[i].arg.items = accepted
    /\ Cardinality(IssuedWrites) <= 1

\* the one flush cycle has run and the later value is in the backing store
C10_Witness ==
  /\ Collapsed
  /\ flushCycles = 1
  /\ flush.pc = "idle"
  /\ \E k \in DOMAIN accepted : WrittenOps(k) # {} /\ Holds(store, k, accepted[k])

-----------------------------------------------------------------------------
(* Claims about reads and writes through the queue (Spec, SpecWrite) *)

OpsOf(type) == {i \in DOMAIN ops : ops[i].type = type}

\* C11: after initialize(schema), a get returns the schema default for every
\* schema key the backing store holds no value for, also after successful writes
\* to other keys.  (Violated: _setInternal replaces the cache by the merge of the
\* backing store with the written items, which has no entry for such a key.)
C11_SchemaDefaultsKept ==
  \A i \in OpsOf("get") :
    (/\ ops[i].st = "fulfilled"
     /\ OpsOf("clear") = {}
     /\ \E j \in OpsOf("initialize") : j < i /\ ops[j].st = "fulfilled") =>
      \A k \in (ops[i].arg.keys \cap DOMAIN WordSchema) \ DOMAIN store :
        Holds(ops[i].res, k, WordSchema[k])

FulfilledSetsOf(k) ==
  {i \in OpsOf("set") : ops[i].st = "fulfilled" /\ k \in DOMAIN ops[i].arg.items}

\* one initialize, then set calls only
OnlySets ==
  \A i \in DOMAIN ops : ops[i].type = IF i = 1 THEN "initialize" ELSE "set"

\* C12: with no writer but a sequence of set calls on an initialized manager,
\* the cache holds for every key
\* the value of the last successful set that included the key, so a key that
\* later sets did not include keeps the value of the earlier set.
C12_LastSetWins ==
  (extWrites = 0 /\ OnlySets) =>
    \A k \in Keys :
      FulfilledSetsOf(k) # {} =>
        Holds(cache, k, ops[Last(FulfilledSetsOf(k))].arg.items[k])

\* two sets succeeded: the first wrote two keys, the second one of them again
C12_Witness ==
  /\ extWrites = 0 /\ OnlySets
  /\ \E i \in OpsOf("set") : \E j \in OpsOf("set") :
       /\ i < j
       /\ ops[i].st = "fulfilled" /\ ops[j].st = "fulfilled"
       /\ DOMAIN ops[j].arg.items # DOMAIN ops[i].arg.items
       /\ DOMAIN ops[j].arg.items \subseteq DOMAIN ops[i].arg.items

IsWrite(o) == o.type \in {"set", "update", "moveToSet"}

\* C14: when a set, update (addToSet, removeFromSet) or moveToSet completes
\* successfully, the cache and the backing store both hold, for every key it
\* wrote, the value it wrote; when it fails the cache is unchanged.
C14_CacheMirrorsWrite ==
  [][\A i \in DOMAIN ops :
       LET o == ops[i]
           n == ops'[i]
       IN /\ (IsWrite(o) /\ o.st = "running" /\ n.st = "fulfilled") =>
               \A k \in DOMAIN o.items :
                 Holds(store', k, o.items[k]) /\ Holds(cache', k, o.items[k])
          /\ (IsWrite(o) /\ ~Settled(o) /\ n.st = "rejected") => cache' = cache
    ]_vars

\* an addToSet succeeded and a later write was rejected at its persist call
C14_Witness ==
  \E i \in OpsOf("update") : \E j \in DOMAIN ops :
    /\ i < j
    /\ ops[i].st = "fulfilled"
    /\ IsWrite(ops[j]) /\ ops[j].st = "rejected" /\ ops[j].pc = "write"

\* the backing store's state for key, as update's fn would receive it: <<>> for
\* a key that is not stored, <<value>> otherwise
StoreCurrent(key) == IF key \in DOMAIN store THEN <<store[key]>> ELSE <<>>

\* C15: the value update computes is fn applied to the backing store's state for
\* the key when the update executes, never to the cached value, also when another
\* context has removed the key.  (Violated: when the store does not hold the key,
\* currentValue falls back to this.cache[key].)
C15_UpdateUsesStoreValue ==
  [][\A i \in OpsOf("update") :
       LET o == ops[i]
           n == ops'[i]
       IN (o.pc = "get" /\ n.st = "running" /\ n.pc = "fn") =>
            ApplyFn(o.arg.fn, o.arg.item, n.cur)
              = ApplyFn(o.arg.fn, o.arg.item, StoreCurrent(o.arg.key))
    ]_vars

\* C16: the sets moveToSet persists under fromKey and toKey are computed from
\* what the backing store held when the operation read it: apart from the moved
\* item, they contain no element the store did not hold under that key.
\* (Violated: for a key the store does not hold, the array is taken from
\* this.cache.)
C16_MoveUsesStoreValues ==
  [][\A i \in OpsOf("moveToSet") :
       LET o == ops[i]
           n == ops'[i]
       IN (o.pc = "get" /\ n.st = "running" /\ n.pc = "write") =>
            \A k \in {o.arg.fromKey, o.arg.toKey} : \A e \in Items :
              InArr(n.items, k, e) =>
                \/ InArr(store, k, e)
                \/ k = o.arg.toKey /\ e = o.arg.item
    ]_vars

-----------------------------------------------------------------------------
(* Algebraic claims about moveToSet, addToSet and removeFromSet *)

\* the set stored under key k: empty when k is not stored
Mem(obj, k) == IF k \in DOMAIN obj THEN Range(obj[k]) ELSE {}

Occurrences(arr, e) == Cardinality({n \in DOMAIN arr : arr[n] = e})

\* the sets a moveToSet that reads the store now persists are the sets stored
MoveKeepsMembership(o, n) ==
  /\ \A k \in {o.arg.fromKey, o.arg.toKey} : Mem(n.items, k) = Mem(store, k)
  /\ Occurrences(n.items[o.arg.toKey], o.arg.item) = 1

IsMoveRead(o, n) ==
  IsMove(o) /\ o.pc = "get" /\ n.st = "running" /\ n.pc = "write"

\* C17 (amended): moveToSet(fromKey, toKey, item) executed when item is in toKey
\* and not in fromKey, as after a first identical call, persists both sets
\* with their membership unchanged and item once in toKey.
C17_MoveIdempotent ==
  [][\A i \in DOMAIN ops :
       LET o == ops[i]
           n == ops'[i]
       IN /\ (/\ IsMoveRead(o, n)
              /\ InArr(store, o.arg.toKey, o.arg.item)
              /\ ~InArr(store, o.arg.fromKey, o.arg.item)) =>
               MoveKeepsMembership(o, n)
          /\ (IsMove(o) /\ o.st = "running" /\ n.st = "fulfilled") =>
               \A k \in {o.arg.fromKey, o.arg.toKey} : Holds(store', k, o.items[k])
    ]_vars

\* C17 as stated: whenever item is already in toKey, also when it is in fromKey
\* as well, the membership of both sets is unchanged.
C17_MoveIdempotentAsStated ==
  [][\A i \in DOMAIN ops :
       (IsMoveRead(ops[i], ops'[i])
        /\ InArr(store, ops[i].arg.toKey, ops[i].arg.item)) =>
         MoveKeepsMembership(ops[i], ops'[i])
    ]_vars

\* the same moveToSet was called twice in a row and both calls succeeded
C17_Witness ==
  /\ extWrites = 0
  /\ \E i \in DOMAIN ops :
       /\ i + 1 \in DOMAIN ops
       /\ IsMove(ops[i]) /\ ops[i].st = "fulfilled"
       /\ ops[i + 1].type = "moveToSet" /\ ops[i + 1].st = "fulfilled"
       /\ ops[i + 1].arg = ops[i].arg

\* operations i and i + 1 are moveToSet(A, B, x) and moveToSet(B, A, x), both
\* succeeded, and nothing else has written the backing store
RoundTrip(i) ==
  /\ extWrites = 0
  /\ i + 1 \in DOMAIN ops
  /\ IsMove(ops[i]) /\ ops[i].st = "fulfilled"
  /\ IsMove(ops[i + 1]) /\ ops[i + 1].st = "fulfilled"
  /\ ops[i + 1].arg = [fromKey |-> ops[i].arg.toKey, toKey |-> ops[i].arg.fromKey,
                       item |-> ops[i].arg.item]
  /\ \A j \in DOMAIN ops : (j < i \/ j > i + 1) => ~(IsMove(ops[j]) /\ ops[j].ran)

\* C18 (amended): moveToSet(A, B, x) followed by moveToSet(B, A, x) leaves x in
\* A and not in B and changes the membership of no other element; so it restores
\* both sets when x was in A and not in B before the first call.
C18_RoundTrip ==
  \A i \in DOMAIN ops :
    RoundTrip(i) =>
      LET A == ops[i].arg.fromKey
          B == ops[i].arg.toKey
          x == ops[i].arg.item
      IN /\ InArr(store, A, x) /\ ~InArr(store, B, x)
         /\ \A k \in {A, B} : Mem(store, k) \ {x} = Mem(store0, k) \ {x}
         /\ (InArr(store0, A, x) /\ ~InArr(store0, B, x)) =>
              \A k \in {A, B} : Mem(store, k) = Mem(store0, k)

\* C18 as stated: the round trip restores the membership of x in both sets
\* wherever x was before the first call.
C18_RoundTripAsStated ==
  \A i \in DOMAIN ops :
    RoundTrip(i) =>
      \A k \in {ops[i].arg.fromKey, ops[i].arg.toKey} :
        InArr(store, k, ops[i].arg.item) <=> InArr(store0, k, ops[i].arg.item)

\* a round trip has completed for an item that was in A only, with another
\* element stored beside it
C18_Witness ==
  \E i \in DOMAIN ops :
    /\ RoundTrip(i)
    /\ InArr(store0, ops[i].arg.fromKey, ops[i].arg.item)
    /\ ~InArr(store0, ops[i].arg.toKey, ops[i].arg.item)
    /\ Mem(store0, ops[i].arg.fromKey) # {ops[i].arg.item}

\* C19: when addToSet(k, x) completes successfully the set stored under k is the
\* set stored before with x in it, and x occurs once in the array, so a second
\* addToSet(k, x) changes nothing; when removeFromSet(k, x) completes on a set
\* that does not contain x the set is unchanged.
C19_AddRemoveIdempotent ==
  [][\A i \in OpsOf("update") :
       LET o == ops[i]
           n == ops'[i]
           k == o.arg.key
           x == o.arg.item
       IN (o.st = "running" /\ n.st = "fulfilled") =>
            /\ k \in DOMAIN store'
            /\ o.arg.fn = "add" =>
                 /\ Mem(store', k) = Mem(store, k) \cup {x}
                 /\ Occurrences(store'[k], x) = 1
            /\ (o.arg.fn = "remove" /\ x \notin Mem(store, k)) =>
                 Mem(store', k) = Mem(store, k)
    ]_vars

\* addToSet was called twice in a row with the same key and item, and both
\* calls succeeded
C19_Witness ==
  \E i \in OpsOf("update") :
    /\ i + 1 \in OpsOf("update")
    /\ ops[i].arg.fn = "add" /\ ops[i + 1].arg = ops[i].arg
    /\ ops[i].st = "fulfilled" /\ ops[i + 1].st = "fulfilled"

-----------------------------------------------------------------------------
(* Claims about errors (Spec) *)

\* C20: a step of the body of a get, set, update or moveToSet taken while the
\* manager is not initialized never completes the operation successfully and
\* changes neither the backing store nor the cache: get, set and update are
\* rejected when their body starts, moveToSet when its read has returned.
C20_UninitializedFails ==
  [][\A i \in DOMAIN ops :
       LET o == ops[i]
           n == ops'[i]
       IN (/\ o.type \in {"get", "set", "update", "moveToSet"}
           /\ n # o /\ n.ran /\ ~initialized) =>
            /\ store' = store
            /\ cache' = cache
            /\ n.st # "fulfilled"
            /\ n.st = "running" => (IsMove(o) /\ o.st = "queued" /\ n.pc = "get")
    ]_vars

\* a moveToSet ran before initialize and was rejected as uninitialized
C20_Witness ==
  /\ ~initialized
  /\ \E i \in OpsOf("moveToSet") :
       ops[i].ran /\ ops[i].st = "rejected" /\ ops[i].err = "uninitialized"

\* C21: an operation that failed because it ran before initialize is the only
\* one to fail: an initialize chained after such failures executes its body,
\* so it settles by the outcome of its own read.  (Violated: the rejected get,
\* set or update is what initialize was chained on, and its body is skipped.)
C21_InitializeRunsAfterUninitialized ==
  \A j \in OpsOf("initialize") :
    (/\ j > 1
     /\ Settled(ops[j])
     /\ \A i \in 1..(j - 1) :
          /\ ops[i].type \in {"get", "set", "update"}
          /\ ops[i].st = "rejected" /\ ops[i].err = "uninitialized") =>
      ops[j].st = "fulfilled" \/ ops[j].err = "adapter"

\* C22: an operation chained after an initialize starts its body only when that
\* initialize has settled; if the initialization read succeeded the manager is
\* then initialized, and the operation does not fail as uninitialized.
C22_OrderingGivesReadiness ==
  \A i \in OpsOf("initialize") : \A j \in DOMAIN ops :
    (j > i /\ ops[j].type \in {"get", "set", "update", "moveToSet"}) =>
      /\ ops[j].ran => Settled(ops[i])
      /\ ops[i].st = "fulfilled" => (initialized /\ ops[j].err # "uninitialized")

\* initialize succeeded and a get and a moveToSet chained after it have run
C22_Witness ==
  \E i \in OpsOf("initialize") : \E j \in OpsOf("get") : \E k \in OpsOf("moveToSet") :
    /\ i < j /\ i < k
    /\ ops[i].st = "fulfilled"
    /\ ops[j].st = "fulfilled" /\ ops[k].st = "fulfilled"

-----------------------------------------------------------------------------
(* Claims about the request handlers (SpecRpc) *)

\* C23: the cache is populated by one initialization read: once an initialize
\* has succeeded, no other initialize call executes its body, so none reads
\* the store again or replaces the cache.  (Violated: this.initialized is
\* tested when initialize is called, not when its body runs, so an initialize
\* called while the first is in flight runs after it.)
C23_InitializeOnce ==
  \A i \in OpsOf("initialize") : \A j \in OpsOf("initialize") :
    (i < j /\ ops[i].st = "fulfilled") => ~ops[j].ran

\* the answer request r had before the step: none for a request that arrives in it
RespBefore(r) == IF r \in DOMAIN reqs THEN reqs[r].resp ELSE "none"

IsFlushReq(rq) == rq.op \in {"flush", "flushNow"}

\* C24: when a flush or flushNow request is answered ok, no flush is in progress
\* any more and every entry the request found in the buffer (the snapshot of the
\* cycle it started, or else the buffer as it is) is in the backing store.
\* (Violated: flushPendingWrites returns at once while another flush is in
\* progress, and the handler answers ok.)
C24_FlushAnsweredWhenWritten ==
  [][\A r \in DOMAIN reqs' :
       (IsFlushReq(reqs'[r]) /\ RespBefore(r) = "none" /\ reqs'[r].resp = "ok") =>
         LET buf == IF flush.pc # "idle" /\ flush.trigger = r THEN flush.toWrite
                    ELSE pendingWrites
         IN /\ ~flushInProgress'
            /\ \A k \in Range(buf.keys) : Holds(store', k, buf.val[k])
    ]_vars

\* C25: status requests mutate nothing: as long as status requests are the only
\* requests received, the buffer, the timer, the flush flag, the metrics, the
\* cache, the initialized flag and the backing store are as they were at the
\* start, and an answered status request reports the buffer's keys.
\* (Violated: the handler initializes the storage manager before its switch,
\* whatever the op, here with the schema {}.)
C25_StatusMutatesNothing ==
  (reqs # <<>> /\ \A r \in DOMAIN reqs : reqs[r].op = "status") =>
    /\ cache = Null /\ ~initialized
    /\ store = store0
    /\ pendingWrites = OEmpty /\ ~pendingFlushTimer /\ ~flushInProgress
    /\ flushMetrics = [flushedCount |-> 0, failedFlushCount |-> 0,
                       lastFlushError |-> "null"]
    /\ \A r \in DOMAIN reqs :
         reqs[r].resp = "ok" => DOMAIN reqs[r].result = Range(pendingWrites.keys)

PcBefore(r) == IF r \in DOMAIN reqs THEN reqs[r].pc ELSE "start"

\* the step answers request r, and the answer is the outcome of what r asked for
AnswerMatchesOutcome(r) ==
  LET ok == reqs'[r].resp = "ok" IN
  CASE PcBefore(r) = "call" ->
         /\ ok <=> ops[reqs[r].wait].st = "fulfilled"
         /\ ok => reqs'[r].result = ops[reqs[r].wait].res
    [] PcBefore(r) = "flush" ->
         /\ flush.trigger = r
         /\ ok <=> ops[flush.wait].st = "fulfilled"
         /\ ~ok => flushMetrics'.failedFlushCount = flushMetrics.failedFlushCount + 1
    [] OTHER -> ok

IsFlushTrigger ==
  \/ pendingFlushTimer /\ ~pendingFlushTimer' /\ reqs' = reqs
  \/ \E r \in DOMAIN reqs' :
       /\ IsFlushReq(reqs'[r])
       /\ PcBefore(r) \in {"start", "init"}
       /\ reqs'[r].pc \in {"done", "flush"}

UnsettledFlushWrites == {i \in DOMAIN ops : ops[i].by = "flush" /\ ~Settled(ops[i])}

\* C28: at most one flush cycle is active. While a flush is in progress no new
\* cycle starts and the snapshot of the running cycle stays as taken; a trigger
\* (timer, flush, flushNow) arriving then chains no write and leaves the buffer,
\* the running flush and the backing store alone; and at most one chunk write is
\* unsettled at any time, the one the running cycle awaits.
C28_OneFlushCycle ==
  [][/\ UnsettledFlushWrites \subseteq
          (IF flush.pc = "write" THEN {flush.wait} ELSE {})
     /\ flushInProgress =>
          /\ flushCycles' = flushCycles
          /\ flush'.pc # "idle" =>
               flush'.toWrite = flush.toWrite /\ flush'.trigger = flush.trigger
          /\ IsFlushTrigger =>
               /\ pendingWrites' = pendingWrites
               /\ ops' = ops
               /\ flush' = flush
               /\ store' = store
    ]_vars

\* a flush request was answered while the cycle the timer started was running
C28_Witness ==
  /\ flushInProgress /\ flush.trigger = 0 /\ flushCycles = 1
  /\ \E r \in DOMAIN reqs :
       IsFlushReq(reqs[r]) /\ reqs[r].resp = "ok" /\ reqs[r].cyc = 1

\* C29: a write accepted while a flush is in progress is written by a next cycle
\* that runs without a further request: when a flush cycle ends successfully and
\* leaves entries in the buffer, a flush is scheduled (the debounce timer is
\* pending) or a request is still being served.
\* (Violated: the timer of such a write can fire during the running flush, which
\* drops it, and the end of the flush schedules nothing.)
C29_LateWriteIsFlushedLater ==
  [][(/\ flushInProgress /\ ~flushInProgress'
      /\ flushMetrics'.failedFlushCount = flushMetrics.failedFlushCount
      /\ pendingWrites'.keys # <<>>) =>
       \/ pendingFlushTimer'
       \/ \E r \in DOMAIN reqs' : reqs'[r].pc # "done"
    ]_vars

\* the step delivers a storage change event
IsChangeEvent == Len(changeEvents') = Len(changeEvents) + 1

\* the cache after the step holds the new value of every changed key, and what
\* it held before under every other key
ChangesMerged(changes) ==
  /\ DOMAIN cache' = DOMAIN cache \cup DOMAIN changes
  /\ \A k \in DOMAIN changes : cache'[k] = changes[k].newValue
  /\ \A k \in DOMAIN cache \ DOMAIN changes : cache'[k] = cache[k]

\* the event made one call of the callback, with its changes, after the merge
CalledOnceAfterMerge(e) ==
  /\ Len(e.calls) = 1
  /\ e.calls[1].changes = e.changes
  /\ e.calls[1].cache = cache'

\* C26 (amended): on a change event for the local area, when the cache has been
\* populated, the new value of every changed key is merged into it (other keys
\* unchanged) before the callback is called; while the cache is still null it
\* stays null; either way the callback is called exactly once with the changes.
\* An event for another area changes nothing and calls no callback.
C26_ChangeEventMerges ==
  [][IsChangeEvent =>
       LET e == changeEvents'[Len(changeEvents')]
       IN /\ UNCHANGED <<store, initialized, ops, fvars>>
          /\ IF e.areaName = "local"
             THEN /\ IF cache # Null THEN ChangesMerged(e.changes) ELSE cache' = Null
                  /\ CalledOnceAfterMerge(e)
             ELSE cache' = cache /\ e.calls = <<>>
    ]_vars

\* C26 as stated: every local event merges its new values into the cache.
\* (Violated by an event that arrives before initialize has populated the cache.)
C26_ChangeEventMergesAsStated ==
  [][IsChangeEvent =>
       LET e == changeEvents'[Len(changeEvents')]
       IN e.areaName = "local" => ChangesMerged(e.changes) /\ CalledOnceAfterMerge(e)
    ]_vars

\* a local event was merged into a populated cache and reported to the callback,
\* and an event of another area was delivered too
C26_Witness ==
  /\ \E i \in DOMAIN changeEvents :
       /\ changeEvents[i].areaName = "local"
       /\ changeEvents[i].calls # <<>>
       /\ changeEvents[i].calls[1].cache # Null
       /\ UNKNOWN \in DOMAIN changeEvents[i].changes
  /\ \E i \in DOMAIN changeEvents : changeEvents[i].areaName = "sync"

\* the step chains a chunk write of the flusher
ChunkWriteChained == Len(ops') = Len(ops) + 1 /\ ops'[Len(ops')].by = "flush"

\* the keys at positions i+1 .. i+chunkSize of a key sequence
SliceKeys(keys, i) == {keys[j] : j \in {n \in DOMAIN keys : n > i /\ n <= i + chunkSize}}

\* C30: within a flush cycle the chunks are written one after another in key
\* order: every chunk write holds the next chunkSize keys of the snapshot, the
\* first chunk starts the cycle, a later chunk is written only after the one
\* before it succeeded, and a retry repeats the same chunk after a failed
\* attempt. A chunk is attempted at most three times; the cycle is declared
\* failed only when the third attempt has failed, and then no further chunk write
\* is chained and the cycle is over.
C30_ChunksInOrderThreeAttempts ==
  [][/\ flush'.pc # "idle" => flush'.attempt \in 1..MaxAttempts
     /\ ChunkWriteChained =>
          /\ DOMAIN ops'[Len(ops')].arg.items =
               SliceKeys(flush'.toWrite.keys, flush'.i)
          /\ flush'.pc = "write" /\ flush'.wait = Len(ops')
          /\ CASE flush.pc = "idle" -> flush'.i = 0 /\ flush'.attempt = 1
               [] flush.pc = "write" ->
                    /\ ops[flush.wait].st = "fulfilled"
                    /\ flush'.toWrite = flush.toWrite
                    /\ flush'.i = flush.i + chunkSize
                    /\ flush'.i < Len(flush.toWrite.keys)
                    /\ flush'.attempt = 1
               [] flush.pc = "backoff" ->
                    /\ flush'.toWrite = flush.toWrite
                    /\ flush'.i = flush.i
                    /\ flush'.attempt = flush.attempt + 1
     /\ flush'.pc = "backoff" =>
          flush' = flush \/ (flush.pc = "write" /\ ops[flush.wait].st = "rejected")
     /\ (flush.pc = "write" /\ flush'.pc # "write" /\ ops[flush.wait].st = "rejected") =>
          IF flush.attempt = MaxAttempts
          THEN /\ flush' = NoFlush /\ ~flushInProgress' /\ ops' = ops
               /\ flushMetrics'.failedFlushCount = flushMetrics.failedFlushCount + 1
          ELSE /\ flush'.pc = "backoff"
               /\ flushMetrics'.failedFlushCount = flushMetrics.failedFlushCount
     /\ flushMetrics'.failedFlushCount # flushMetrics.failedFlushCount =>
          flush.pc = "write" /\ flush.attempt = MaxAttempts
    ]_vars

\* the second chunk of a cycle is at its third attempt: the first chunk was written
\* and the second has failed twice
C30_Witness ==
  /\ flush.pc = "write" /\ flush.i = chunkSize /\ flush.attempt = MaxAttempts
  /\ Len(flush.toWrite.keys) > chunkSize
  /\ \A k \in SliceKeys(flush.toWrite.keys, 0) : k \in DOMAIN store

\* the step ends a flush cycle in permanent failure
IsPermanentFailure ==
  flushMetrics'.failedFlushCount = flushMetrics.failedFlushCount + 1

\* C31: on permanent failure every key of the snapshot, those of chunks already
\* written included, is in the buffer again; a key written anew during the flush
\* keeps its newer value, every other key of the snapshot gets the snapshot's
\* value back, and what else the buffer held stays.
C31_WholeSnapshotRemerged ==
  [][IsPermanentFailure =>
       /\ Range(pendingWrites'.keys) =
            Range(flush.toWrite.keys) \cup Range(pendingWrites.keys)
       /\ \A k \in Range(pendingWrites.keys) :
            pendingWrites'.val[k] = pendingWrites.val[k]
       /\ \A k \in Range(flush.toWrite.keys) \ Range(pendingWrites.keys) :
            pendingWrites'.val[k] = flush.toWrite.val[k]
    ]_vars

\* a cycle failed on its second chunk after the first was written, while a newer
\* value for a key of the first chunk had been buffered: the whole snapshot is
\* buffered again, and that key has the newer value
C31_Witness ==
  /\ flushMetrics.failedFlushCount = 1 /\ flush.pc = "idle"
  /\ Range(ManyKeys) \subseteq Range(pendingWrites.keys)
  /\ pendingWrites.val[ManyKeys[1]] = <<"y">>
  /\ Holds(store, ManyKeys[1], <<"x">>)
  /\ ManyKeys[Len(ManyKeys)] \notin DOMAIN store

\* C32: flushedCount counts flush cycles: it changes only on the step that ends
\* a cycle in full success, and then by exactly one.
\* (Violated: it is incremented after every chunk written, so a cycle of two
\* chunks counts two, and a cycle that fails on its second chunk counts one.)
C32_FlushedCountCountsCycles ==
  [][flushMetrics'.flushedCount # flushMetrics.flushedCount =>
       /\ flushMetrics'.flushedCount = flushMetrics.flushedCount + 1
       /\ flush.pc = "write" /\ flush'.pc = "idle" /\ ~flushInProgress'
       /\ ~IsPermanentFailure
    ]_vars

\* C33: a failed moveToSet never blocks the queue: the operation chained after a
\* moveToSet that was rejected (its read or write failed, or it was itself passed
\* the rejection of the operation before it) executes its body.
C33_FailedMoveDoesNotBlock ==
  \A j \in DOMAIN ops :
    (j > 1 /\ Settled(ops[j])) =>
      ((IsMove(ops[j - 1]) /\ ops[j - 1].st = "rejected") => ops[j].ran)

\* an operation ran its body after a moveToSet that was rejected without running,
\* behind a failed operation
C33_Witness ==
  \E j \in DOMAIN ops :
    /\ j > 2
    /\ ops[j - 2].st = "rejected"
    /\ IsMove(ops[j - 1]) /\ ops[j - 1].st = "rejected" /\ ~ops[j - 1].ran
    /\ ops[j].ran /\ Settled(ops[j])

\* C34: the in-progress guard is held exactly while a cycle has a chunk write or
\* a backoff pending: the step that settles a cycle, by full success or by
\* permanent failure, releases it, and a trigger (timer, flush, flushNow) that
\* then finds the buffer non-empty starts a new cycle.
C34_GuardReleasedAfterCycle ==
  [][/\ flushInProgress <=> flush.pc \in {"write", "backoff"}
     /\ flush.pc = "write" => flush.wait \in DOMAIN ops
     /\ (flush.pc # "idle" /\ flush'.pc = "idle") => ~flushInProgress'
     /\ (IsFlushTrigger /\ ~flushInProgress /\ pendingWrites.keys # <<>>) =>
          /\ flushInProgress'
          /\ flushCycles' = flushCycles + 1
          /\ flush'.toWrite = pendingWrites
    ]_vars

\* a second cycle is running after the first ended in permanent failure
C34_Witness ==
  /\ flushCycles = 2 /\ flushInProgress /\ flush.pc = "write"
  /\ flushMetrics.failedFlushCount = 1

\* the step is the successful write of moveToSet operation i
IsMoveWrite(i) ==
  /\ IsMove(ops[i]) /\ ops[i].st = "running" /\ ops[i].pc = "write"
  /\ ops'[i].st = "fulfilled"

\* C35: moveToSet changes only fromKey and toKey in the backing store: every
\* other key holds after the write what it held before it.
\* (Violated: with skipRemoteRead the write sends the whole cache merged with the
\* two sets, so a key whose stored value is newer than the cached one is set
\* back to the cached value.)
C35_MoveWritesOnlyItsKeys ==
  [][\A i \in DOMAIN ops :
       IsMoveWrite(i) =>
         \A k \in (DOMAIN store \cup DOMAIN store') \
                    {ops[i].arg.fromKey, ops[i].arg.toKey} :
           /\ k \in DOMAIN store /\ k \in DOMAIN store'
           /\ store'[k] = store[k]
    ]_vars

\* only get, set, status and flush requests have been sent
OnlyReadsAndSets ==
  \A s \in DOMAIN reqs : reqs[s].op \in {"get", "set", "status", "flush", "flushNow"}

\* C36: read-your-writes through the requests: a get that arrived after a set of
\* key k was acknowledged, with no other value acknowledged for k since, is
\* answered with the value that was set, also when no flush has run yet.
\* (Violated: set only buffers the value, and get reads the cache of the
\* StorageManager, which the value reaches when a flush has written it.)
C36_GetReturnsAcknowledgedSet ==
  [][\A r \in DOMAIN reqs :
       (/\ reqs[r].op = "get" /\ reqs[r].resp = "none" /\ reqs'[r].resp = "ok"
        /\ OnlyReadsAndSets) =>
         \A k \in DOMAIN reqs[r].args \cap DOMAIN reqs[r].seen :
           Holds(accepted, k, reqs[r].seen[k]) =>
             Holds(reqs'[r].result, k, reqs[r].seen[k])
    ]_vars

\* no 'set' of key k has been acknowledged since request rq arrived
NoSetSince(rq, k) ==
  IF k \in DOMAIN accepted
  THEN Holds(rq.seen, k, accepted[k])
  ELSE k \notin DOMAIN rq.seen

\* C37: requests take effect on the backing store in the order they were
\* acknowledged: once a moveToSet request has been answered ok, and no set of
\* either key has been acknowledged since it arrived, the item is in toKey and not
\* in fromKey in the backing store, whatever was buffered before.
\* (Violated: a set of the two keys buffered before the moveToSet is flushed
\* after it, and writes the sets as they were given before the move.)
C37_BufferedSetDoesNotUndoMove ==
  \A m \in DOMAIN reqs :
    LET rq == reqs[m] IN
    (/\ rq.op = "moveToSet" /\ rq.resp = "ok"
     /\ NoSetSince(rq, rq.args.fromKey) /\ NoSetSince(rq, rq.args.toKey)) =>
       /\ InArr(store, rq.args.toKey, rq.args.item)
       /\ ~InArr(store, rq.args.fromKey, rq.args.item)

\* the step starts job j
JobStarts(j) == syncQueue[j].st = "queued" /\ syncQueue'[j].st = "running"

\* C38 (amended): the jobs of a WordManager run one at a time in submission
\* order, a job starting only after the job before it has ended, so after every
\* storage request that job awaited has settled; a job whose storage request
\* failed is ended like any other, and the next job can start. (The storageMove
\* message a job sends after an invalidated context is not awaited, and is not
\* part of this.)
C38_JobsRunOneAtATime ==
  [][/\ Cardinality({j \in DOMAIN syncQueue : syncQueue[j].st = "running"}) <= 1
     /\ \A j \in DOMAIN syncQueue :
          /\ JobStarts(j) =>
               \A i \in 1..(j - 1) :
                 syncQueue[i].st = "done" /\ syncQueue[i].pc = "none"
          /\ (syncQueue[j].st = "running" /\ syncQueue'[j].st = "done") =>
               (j + 1 \in DOMAIN syncQueue' => JobReady(syncQueue', j + 1))
          /\ syncQueue[j].st = "done" => syncQueue'[j] = syncQueue[j]
    ]_vars

\* C38 as stated: a job starts only after every storage request of the jobs
\* before it has settled.
\* (Violated: after 'Extension context invalidated' a job sends a storageMove
\* message and ends without waiting for it.)
C38_JobsRunOneAtATimeAsStated ==
  [][\A j \in DOMAIN syncQueue :
       JobStarts(j) => \A m \in DOMAIN sentMoves : sentMoves[m].settled
    ]_vars

\* a job has run to its end after the job before it failed
C38_Witness ==
  /\ Len(syncQueue) = 2
  /\ syncQueue[1].st = "done" /\ syncQueue[1].out = "failed"
  /\ syncQueue[2].st = "done" /\ syncQueue[2].out = "ok"

Disjoint(sys) == sys.knownWords \cap sys.unknownWords = {}

\* C39: the local knownWords and unknownWords sets, disjoint at the start, are
\* disjoint after every step of every job, whether its storage requests succeed
\* or fail; and a job whose storage request failed for another reason than an
\* invalidated context ends with both sets as they were.
C39_LocalSetsDisjoint ==
  [][/\ Disjoint(system) /\ Disjoint(system')
     /\ \A j \in DOMAIN syncQueue :
          (syncQueue[j].st = "running" /\ syncQueue'[j].out = "failed") =>
            system' = system
    ]_vars

\* a word that was in unknownWords has been moved to knownWords by one job, and
\* another job failed and changed nothing
C39_Witness ==
  /\ \E j \in DOMAIN syncQueue : syncQueue[j].out = "failed"
  /\ \E j \in DOMAIN syncQueue :
       /\ syncQueue[j].out = "ok" /\ syncQueue[j].next = "KNOWN"
       /\ syncQueue[j].word \in system.knownWords
  /\ system.unknownWords # {}

\* C40: after scanAndMirror returns there are as many mimic lines as native
\* caption lines, whatever toggle, refresh, incremental update and rescan events
\* came before.
\* (Violated: clearMimicLines leaves domState.lineCount as it was, so the scan
\* after toggling off and on over unchanged captions sees no change of the line
\* count, rebuilds nothing, and the mimic lines stay cleared.)
C40_MimicLinesMatchNative ==
  mimic.scanned => mimic.mimicLines = mimic.nativeLines

====
